---- MODULE Spec2Model ----
(***************************************************************************)
(* dagster_airflow/operators.py: the response scanner parse_raw_res, the   *)
(* error classifier handle_errors, and the life of one                     *)
(* DagsterDockerOperator: its constructor's validation and its execute,    *)
(* which runs ModifiedDockerOperator.execute against the container-engine  *)
(* client and then classifies the response found in the container's log.   *)
(***************************************************************************)
EXTENDS Naturals, Sequences, FiniteSets, TLC

VARIABLES
    pc,            \* position: "new", "init_failed", "idle", or a point inside execute
    ctor,          \* the constructor's arguments [step, config, pipeline_name, step_keys]
    step_keys,     \* self.step_keys
    _run_id,       \* self._run_id
    params,        \* self.params as execute finds it
    context,       \* the context argument of execute
    queryRunId,    \* the run_id that self.query formatted into the command of this call
    lastRunId,     \* the _run_id the previous execute ran with
    environment,   \* self.environment
    volumes,       \* self.volumes
    cliCalls,      \* the client calls of the current execute, in order
    createdBinds,  \* the binds handed to the last create_container
    reached,       \* number of executes that entered the get_host_tmp_dir block
    nCalls,        \* number of executes begun
    result,        \* the value cli.wait returned
    containerLog,  \* the log of the container, as lines
    parsed,        \* [done, res, last_line]: what parse_raw_res returned in this call
    outcome        \* how the last __init__ / execute ended

vars == <<pc, ctor, step_keys, _run_id, params, context, queryRunId, lastRunId, environment,
          volumes, cliCalls, createdBinds, reached, nCalls, result, containerLog,
          parsed, outcome>>

-----------------------------------------------------------------------------
(* Bounds of the model. *)

MaxLines == 3

MaxCalls == 2

MaxKeys == 2

-----------------------------------------------------------------------------
(* Python values. *)

None == "None"

\* A decoded JSON value. Every value is a record of the same shape; for a dict the
\* fields say which keys the code reads are present and what they hold.
PyVal(t, e, d, ep, tn, hf, pl) ==
    [type |-> t, errors |-> e, data |-> d, executePlan |-> ep,
     typename |-> tn, hasFailures |-> hf, payload |-> pl]

Scalar(t) == PyVal(t, "absent", "absent", "absent", "absent", "absent", "absent")

PyNone == Scalar("NoneType")

FailureTags == {"PipelineConfigValidationInvalid", "PipelineNotFoundError", "PythonError"}

\* The shapes of the 'data' entry of a response: absent, null, or a dict whose
\* 'executePlan' is absent, null or a dict with its '__typename', 'hasFailures'
\* and the other fields the variant's branch reads ("complete") or not ("missing").
DataShapes ==
    {<<"absent", "absent", "absent", "absent", "absent">>,
     <<"null", "absent", "absent", "absent", "absent">>,
     <<"dict", "absent", "absent", "absent", "absent">>,
     <<"dict", "null", "absent", "absent", "absent">>,
     <<"dict", "dict", "absent", "absent", "absent">>,
     <<"dict", "dict", "", "absent", "absent">>,
     <<"dict", "dict", "SomethingElse", "absent", "complete">>,
     <<"dict", "dict", "ExecutePlanSuccess", "absent", "complete">>,
     <<"dict", "dict", "ExecutePlanSuccess", "false", "complete">>,
     <<"dict", "dict", "ExecutePlanSuccess", "true", "complete">>,
     <<"dict", "dict", "ExecutePlanSuccess", "true", "missing">>}
    \cup {<<"dict", "dict", tn, "absent", pl>> :
             tn \in FailureTags, pl \in {"complete", "missing"}}

Responses ==
    {PyVal("dict", e, s[1], s[2], s[3], s[4], s[5]) :
        e \in {"absent", "empty", "nonempty"}, s \in DataShapes}

-----------------------------------------------------------------------------
(* Lines of output and json.loads. *)

\* A line of the container's log: its text, and for a line holding a JSON object
\* the object it spells.
TextLine(s) == [text |-> s, doc |-> PyNone]

ObjectLine(r) == [text |-> "{...}", doc |-> r]

JSONDecodeError == [ok |-> FALSE, value |-> PyNone]

Decoded(v) == [ok |-> TRUE, value |-> v]

JsonLoads(line) ==
    CASE line.text = "{...}" -> Decoded(line.doc)
      [] line.text = "null"  -> Decoded(PyNone)
      [] line.text = "42"    -> Decoded(Scalar("int"))
      [] line.text = "[]"    -> Decoded(Scalar("list"))
      [] line.text = "\"done\"" -> Decoded(Scalar("str"))
      [] OTHER -> JSONDecodeError

Reverse(s) == [i \in 1..Len(s) |-> s[Len(s) + 1 - i]]

LinesForward(raw_res) == raw_res

\* lines = list(reversed(raw_res.decode('utf-8').split('\n')))
ReversedLines(raw_res) == Reverse(raw_res)

RECURSIVE ScanLines(_, _)
ScanLines(lines, i) ==
    IF i > Len(lines) THEN PyNone
    ELSE LET r == JsonLoads(lines[i])
         IN  IF r.ok THEN r.value ELSE ScanLines(lines, i + 1)

parse_raw_res(raw_res) ==
    LET lines == ReversedLines(raw_res)
    IN  [res |-> ScanLines(lines, 1), last_line |-> lines[1]]

-----------------------------------------------------------------------------
(* How a call ends. *)

NoValue == Scalar("nothing")

NoOutcome == [kind |-> "none", exc |-> "", msg |-> "", value |-> NoValue]

Return(v) == [kind |-> "return", exc |-> "", msg |-> "", value |-> v]

Raise(e, m) == [kind |-> "raise", exc |-> e, msg |-> m, value |-> NoValue]

Passed == [kind |-> "pass", exc |-> "", msg |-> "", value |-> NoValue]

-----------------------------------------------------------------------------
(* handle_errors and the switch over __typename in DagsterDockerOperator.execute. *)

handle_errors_NoErrorsCheck(res, last_line) ==
    IF res.type = "NoneType"
    THEN Raise("AirflowException", "Unhandled error type")
    ELSE IF res.type # "dict" \/ res.data = "null" \/ res.executePlan = "null"
    THEN Raise("AttributeError", "object has no attribute 'get'")
    ELSE IF res.typename \in {"absent", ""}
    THEN Raise("AirflowException", "Unexpected response type")
    ELSE Passed

\* A value that json.loads returned and that is no dict has no .get; neither has the
\* None that res.get('data', {}) returns for "data": null.
handle_errors(res, last_line) ==
    IF res.type = "NoneType"
    THEN Raise("AirflowException", "Unhandled error type")
    ELSE IF res.type # "dict"
    THEN Raise("AttributeError", "object has no attribute 'get'")
    ELSE IF res.errors = "nonempty"
    THEN Raise("AirflowException", "Internal error in GraphQL request")
    ELSE IF res.data = "null" \/ res.executePlan = "null"
    THEN Raise("AttributeError", "'NoneType' object has no attribute 'get'")
    ELSE IF res.typename \in {"absent", ""}
    THEN Raise("AirflowException", "Unexpected response type")
    ELSE Passed

\* Lines 346-388: res_data[...] raises KeyError for a key the response lacks.
ClassifyResponse(res) ==
    CASE res.typename = "PipelineConfigValidationInvalid" ->
            IF res.payload = "missing" THEN Raise("KeyError", "errors")
            ELSE Raise("AirflowException", "Pipeline configuration invalid")
      [] res.typename = "PipelineNotFoundError" ->
            IF res.payload = "missing" THEN Raise("KeyError", "stack")
            ELSE Raise("AirflowException", "Pipeline not found")
      [] res.typename = "ExecutePlanSuccess" ->
            IF res.hasFailures = "absent" THEN Raise("KeyError", "hasFailures")
            ELSE IF res.hasFailures = "true"
            THEN IF res.payload = "missing" THEN Raise("KeyError", "stepEvents")
                 ELSE Raise("AirflowException", "Subplan execution failed")
            ELSE Return(res)
      [] res.typename = "PythonError" ->
            IF res.payload = "missing" THEN Raise("KeyError", "message")
            ELSE Raise("AirflowException", "Subplan execution failed")
      [] OTHER -> Return(res)

\* Lines 342-388: what execute does with the logs that super().execute returned.
ProcessResponse(raw_res) ==
    LET p == parse_raw_res(raw_res)
        h == handle_errors(p.res, p.last_line)
    IN  IF h.kind = "pass" THEN ClassifyResponse(p.res) ELSE h

-----------------------------------------------------------------------------
(* The constructor's arguments. *)

PyStr(s) == [type |-> "str", v |-> s]

PyInt(s) == [type |-> "int", v |-> s]

PyNoneArg == [type |-> "NoneType", v |-> "None"]

IsString(x) == x.type = "str"

StepKeyValues == {PyStr("a"), PyStr("b"), PyInt("1")}

SeqsUpTo(S, n) == UNION {[1..k -> S] : k \in 0..n}

\* step_keys as passed: None, a list, or a value that is no list (a tuple).
StepKeysArgs ==
    {[type |-> "NoneType", items |-> <<>>], [type |-> "tuple", items |-> <<PyStr("a")>>]}
    \cup {[type |-> "list", items |-> l] : l \in SeqsUpTo(StepKeyValues, MaxKeys)}

CtorArgs ==
    [step : {PyNoneArg, PyStr("solid")},
     config : {PyNoneArg, PyStr("{storage: {filesystem: {}}}")},
     pipeline_name : {PyNoneArg, PyStr("demo_pipeline")},
     step_keys : StepKeysArgs]

DefaultCtor ==
    [step |-> PyStr("solid"), config |-> PyStr("{storage: {filesystem: {}}}"),
     pipeline_name |-> PyStr("demo_pipeline"),
     step_keys |-> [type |-> "list", items |-> <<PyStr("a")>>]]

\* Lines 214-217: the loop tests `step`, not `step_key`.
bad_keys(step, keys) ==
    {ix \in 1..Len(keys) : ~IsString(step)}

\* Lines 189-230: how construction ends, and the step_keys it stores.
InitOutcome(a) ==
    LET keys == IF a.step_keys.type = "NoneType" THEN <<>> ELSE a.step_keys.items
    IN  IF ~IsString(a.config) \/ ~IsString(a.pipeline_name)
        THEN Raise("AssertionError", "expected a string")
        ELSE IF a.step_keys.type \notin {"NoneType", "list"}
        THEN Raise("AssertionError", "expected a list")
        ELSE IF bad_keys(a.step, keys) # {}
        THEN Raise("AssertionError", "expected only strings")
        ELSE Return(NoValue)

NoStepKeys == [type |-> "NoneType", items |-> <<>>]

\* self.step_keys: the argument (line 192), None replaced by [] once the string
\* checks have passed (lines 206-207).
StoredStepKeys(a) ==
    IF ~IsString(a.config) \/ ~IsString(a.pipeline_name) THEN a.step_keys
    ELSE IF a.step_keys.type = "NoneType" THEN [type |-> "list", items |-> <<>>]
    ELSE a.step_keys

-----------------------------------------------------------------------------
(* The operator's settings and the inputs of execute. *)

DOCKER_TEMPDIR == "/tmp"

HostTmpDir == "/host/tmp"

\* '{0}:{1}'.format(host_tmp_dir, self.tmp_dir)
Bind(host, dir) == <<host, dir>>

InitVolumes == <<Bind("/srv/data", "/data")>>

DEFAULT_ENVIRONMENT ==
    [k \in {"AWS_ACCESS_KEY_ID", "AWS_SECRET_ACCESS_KEY"} |-> "from os.getenv"]

ParamsChoices == {[has_run_id |-> FALSE, run_id |-> None],
                  [has_run_id |-> TRUE, run_id |-> "manual_run"]}

ContextChoices == {[has_dag_run |-> FALSE, dag_run |-> None],
                   [has_dag_run |-> TRUE, dag_run |-> None],
                   [has_dag_run |-> TRUE, dag_run |-> "scheduled_run"]}

NoParams == [has_run_id |-> FALSE, run_id |-> None]

NoContext == [has_dag_run |-> FALSE, dag_run |-> None]

StatusCodes == {0, 1}

NoResult == [StatusCode |-> 0, waited |-> FALSE]

NotParsed == [done |-> FALSE, res |-> NoValue, last_line |-> TextLine("")]

\* What the container may have logged by the time it exits.
OkResponse ==
    PyVal("dict", "absent", "dict", "dict", "ExecutePlanSuccess", "false", "complete")

ErrResponse ==
    PyVal("dict", "nonempty", "null", "absent", "absent", "absent", "absent")

ScanAlphabet ==
    {TextLine(""), TextLine("INFO plan started"), TextLine("null"), TextLine("42"),
     ObjectLine(OkResponse), ObjectLine(ErrResponse)}

Outputs ==
    (SeqsUpTo(ScanAlphabet, MaxLines) \ {<<>>})
    \cup {<<ObjectLine(r)>> : r \in Responses}
    \cup {<<ObjectLine(r), TextLine("INFO done")>> : r \in Responses}
    \cup {<<TextLine("[]")>>, <<TextLine("\"done\"")>>}

-----------------------------------------------------------------------------
(* State. *)

\* The fields of an operator before any execute, for the given constructor arguments.
Fresh(a, at) ==
    /\ pc = at
    /\ ctor = a
    /\ step_keys = IF at = "idle" THEN StoredStepKeys(a) ELSE NoStepKeys
    /\ _run_id = None
    /\ params = NoParams
    /\ context = NoContext
    /\ queryRunId = ""
    /\ lastRunId = None
    /\ environment = DEFAULT_ENVIRONMENT
    /\ volumes = InitVolumes
    /\ cliCalls = <<>>
    /\ createdBinds = <<>>
    /\ reached = 0
    /\ nCalls = 0
    /\ result = NoResult
    /\ containerLog = <<>>
    /\ parsed = NotParsed
    /\ outcome = NoOutcome

\* An operator that DagsterDockerOperator(...) has built.
Init == Fresh(DefaultCtor, "idle")

\* Before the constructor runs, for each choice of its arguments.
InitNew == \E a \in CtorArgs : Fresh(a, "new")

callVars == <<params, context, queryRunId, lastRunId, environment, volumes, cliCalls,
              createdBinds, reached, nCalls, result, containerLog, parsed>>

\* DagsterDockerOperator.__init__, lines 179-254.
DagsterDockerOperator__init__ ==
    /\ pc = "new"
    /\ outcome' = InitOutcome(ctor)
    /\ pc' = IF outcome'.kind = "raise" THEN "init_failed" ELSE "idle"
    /\ step_keys' = StoredStepKeys(ctor)
    /\ _run_id' = None
    /\ UNCHANGED <<ctor, callVars>>

\* The run_id property, lines 291-296.
run_id(rid) == IF rid = None THEN "" ELSE rid

RunIdKept == _run_id

\* finally: self._run_id = None, lines 390-391.
RunIdAfterExecute == None

\* execute ends with outcome o: every exit of the try block runs the finally clause.
EndExecute(o) ==
    /\ pc' = "idle"
    /\ outcome' = o
    /\ lastRunId' = _run_id
    /\ _run_id' = RunIdAfterExecute

\* DagsterDockerOperator.execute, lines 331-338: the run id, then self.query.
ExecuteBegin ==
    /\ pc = "idle"
    /\ nCalls < MaxCalls
    /\ \E p \in ParamsChoices, c \in ContextChoices :
          /\ params' = p
          /\ context' = c
          /\ LET rid == IF p.has_run_id THEN p.run_id
                        ELSE IF c.has_dag_run /\ c.dag_run # None THEN c.dag_run
                        ELSE _run_id
             IN  /\ _run_id' = rid
                 /\ queryRunId' = run_id(rid)
    /\ nCalls' = nCalls + 1
    /\ cliCalls' = <<>>
    /\ result' = NoResult
    /\ containerLog' = <<>>
    /\ parsed' = NotParsed
    /\ outcome' = NoOutcome
    /\ pc' = "connect"
    /\ UNCHANGED <<ctor, step_keys, lastRunId, environment, volumes, createdBinds, reached>>

\* ModifiedDockerOperator.execute, lines 105-119: the client, then the image, which
\* is there, or is pulled, or whose pull the engine refuses.
Connect ==
    /\ pc = "connect"
    /\ \E image \in {"present", "pulled", "pull fails"} :
          /\ cliCalls' = cliCalls \o
                (IF image = "present" THEN <<"images">> ELSE <<"images", "pull">>)
          /\ IF image = "pull fails"
             THEN EndExecute(Raise("APIError", "pull"))
             ELSE /\ pc' = "tmpdir"
                  /\ UNCHANGED <<outcome, _run_id, lastRunId>>
    /\ UNCHANGED <<ctor, step_keys, params, context, queryRunId, environment, volumes,
                   createdBinds, reached, nCalls, result, containerLog, parsed>>

AppendBindOnce(vols, bind) ==
    IF \E i \in 1..Len(vols) : vols[i] = bind THEN vols ELSE Append(vols, bind)

\* self.volumes.append(...), line 123.
AppendBind(vols, bind) == Append(vols, bind)

\* Lines 121-141: the temporary directory's bind, then create_container, which the
\* engine may refuse.
CreateContainer ==
    /\ pc = "tmpdir"
    /\ environment' = ("AIRFLOW_TMP_DIR" :> DOCKER_TEMPDIR) @@ environment
    /\ volumes' = AppendBind(volumes, Bind(HostTmpDir, DOCKER_TEMPDIR))
    /\ reached' = reached + 1
    /\ cliCalls' = Append(cliCalls, "create_container")
    /\ createdBinds' = volumes'
    /\ \/ /\ pc' = "created"
          /\ UNCHANGED <<outcome, _run_id, lastRunId>>
       \/ EndExecute(Raise("APIError", "create_container"))
    /\ UNCHANGED <<ctor, step_keys, params, context, queryRunId, nCalls, result,
                   containerLog, parsed>>

StartContainerTwice ==
    /\ pc = "created"
    /\ cliCalls' = cliCalls \o <<"start", "start">>
    /\ pc' = "started"
    /\ UNCHANGED <<ctor, step_keys, _run_id, params, context, queryRunId, lastRunId, environment,
                   volumes, createdBinds, reached, nCalls, result, containerLog, parsed,
                   outcome>>

\* self.cli.start(...), line 142, which the engine may refuse.
StartContainer ==
    /\ pc = "created"
    /\ cliCalls' = Append(cliCalls, "start")
    /\ \/ /\ pc' = "started"
          /\ UNCHANGED <<outcome, _run_id, lastRunId>>
       \/ EndExecute(Raise("APIError", "start"))
    /\ UNCHANGED <<ctor, step_keys, params, context, queryRunId, environment, volumes,
                   createdBinds, reached, nCalls, result, containerLog, parsed>>

\* The streamed logs, lines 144-149.
StreamLogs ==
    /\ pc = "started"
    /\ cliCalls' = Append(cliCalls, "logs(stream)")
    /\ pc' = "streamed"
    /\ UNCHANGED <<ctor, step_keys, _run_id, params, context, queryRunId, lastRunId, environment,
                   volumes, createdBinds, reached, nCalls, result, containerLog, parsed,
                   outcome>>

ContainerFailedBelowZero(r) == r.StatusCode < 0

\* result['StatusCode'] != 0, line 152.
ContainerFailed(r) == r.StatusCode # 0

\* self.cli.wait(...), lines 151-153: the container has exited with a status code,
\* leaving its log.
WaitContainer ==
    /\ pc = "streamed"
    /\ cliCalls' = Append(cliCalls, "wait")
    /\ \E code \in StatusCodes, log \in Outputs :
          /\ result' = [StatusCode |-> code, waited |-> TRUE]
          /\ containerLog' = log
    /\ IF ContainerFailed(result')
       THEN EndExecute(Raise("AirflowException", "docker container failed"))
       ELSE /\ pc' = "waited"
            /\ UNCHANGED <<outcome, _run_id, lastRunId>>
    /\ UNCHANGED <<ctor, step_keys, params, context, queryRunId, environment, volumes,
                   createdBinds, reached, nCalls, parsed>>

\* Lines 155-156 and 340-391: the logs are read (xcom_push and xcom_all are set by
\* the constructors), parsed and classified, and execute ends.
FinishExecute ==
    /\ pc = "waited"
    /\ cliCalls' = Append(cliCalls, "logs")
    /\ LET p == parse_raw_res(containerLog)
       IN  parsed' = [done |-> TRUE, res |-> p.res, last_line |-> p.last_line]
    /\ EndExecute(ProcessResponse(containerLog))
    /\ UNCHANGED <<ctor, step_keys, params, context, queryRunId, environment, volumes,
                   createdBinds, reached, nCalls, result, containerLog>>

Next ==
    \/ ExecuteBegin
    \/ Connect
    \/ CreateContainer
    \/ StartContainer
    \/ StreamLogs
    \/ WaitContainer
    \/ FinishExecute

Spec == Init /\ [][Next]_vars

NextNew == DagsterDockerOperator__init__

SpecNew == InitNew /\ [][NextNew]_vars

-----------------------------------------------------------------------------
(* Properties. *)

Finished == pc = "idle" /\ nCalls > 0

IsJson(line) == JsonLoads(line).ok

IsJsonObject(line) == IsJson(line) /\ JsonLoads(line).value.type = "dict"

RaisedAirflow == outcome.kind = "raise" /\ outcome.exc = "AirflowException"

\* C1: when no line of the output that execute parsed is a JSON object, execute
\* ends by raising AirflowException.
C1_UnparseableOutputRaisesAirflowException ==
    (Finished /\ parsed.done
        /\ \A i \in 1..Len(containerLog) : ~IsJsonObject(containerLog[i]))
    => RaisedAirflow

\* C2: a parsed response object with a non-empty 'errors' entry makes execute end
\* with the AirflowException of handle_errors, whatever its data and __typename
\* are; the response is never returned.
C2_ErrorEntriesRaise ==
    (Finished /\ parsed.done /\ parsed.res.type = "dict" /\ parsed.res.errors = "nonempty")
    => /\ RaisedAirflow
       /\ outcome.msg = "Internal error in GraphQL request"
       /\ outcome.value # parsed.res

C2_Witness ==
    /\ Finished /\ parsed.done /\ RaisedAirflow
    /\ parsed.res.errors = "nonempty"
    /\ parsed.res.typename = "ExecutePlanSuccess"
    /\ parsed.res.hasFailures = "false"

\* C3: a parsed response object without error entries that lacks
\* data.executePlan.__typename (data absent or null, executePlan absent or null,
\* __typename absent or empty) makes handle_errors raise AirflowException
\* 'Unexpected response type'.
C3_MissingDiscriminatorRaisesAirflowException ==
    (Finished /\ parsed.done /\ parsed.res.type = "dict"
        /\ parsed.res.errors # "nonempty"
        /\ \/ parsed.res.data \in {"absent", "null"}
           \/ parsed.res.executePlan \in {"absent", "null"}
           \/ parsed.res.typename \in {"absent", ""})
    => RaisedAirflow /\ outcome.msg = "Unexpected response type"

PassesHandleErrors(res) ==
    /\ res.type = "dict"
    /\ res.errors # "nonempty"
    /\ res.data = "dict"
    /\ res.executePlan = "dict"
    /\ res.typename \notin {"absent", ""}

\* C4: for a response that passes handle_errors, execute raises AirflowException
\* for the three failure tags and for ExecutePlanSuccess with hasFailures true, and
\* returns the response unchanged exactly for ExecutePlanSuccess with hasFailures
\* false and for a tag outside these four.
C4_SwitchOverTypename ==
    (Finished /\ parsed.done /\ PassesHandleErrors(parsed.res))
    => LET res == parsed.res
           success == res.typename = "ExecutePlanSuccess"
       IN  /\ (res.typename \in FailureTags \/ (success /\ res.hasFailures = "true"))
                 => RaisedAirflow
           /\ outcome.kind = "return"
                 <=> \/ success /\ res.hasFailures = "false"
                     \/ res.typename \notin FailureTags \cup {"ExecutePlanSuccess"}
           /\ outcome.kind = "return" => outcome.value = res

\* C5: a wait result with a StatusCode other than 0 ends execute with the
\* AirflowException of ModifiedDockerOperator.execute; the logs are neither read
\* nor parsed, whatever the container logged.
C5_NonZeroExitRaises ==
    (result.waited /\ result.StatusCode # 0)
    => /\ pc = "idle"
       /\ RaisedAirflow
       /\ outcome.msg = "docker container failed"
       /\ ~parsed.done
       /\ \A i \in 1..Len(cliCalls) : cliCalls[i] # "logs"

C5_Witness ==
    /\ result.waited /\ result.StatusCode # 0
    /\ containerLog = <<ObjectLine(OkResponse)>>
    /\ RaisedAirflow

ClientProtocol == <<"create_container", "start", "logs(stream)", "wait", "logs">>

IsContainerCall(c) == c \in {"create_container", "start", "logs(stream)", "wait", "logs"}

IsPrefix(s, t) == Len(s) <= Len(t) /\ \A i \in 1..Len(s) : s[i] = t[i]

\* C6: within one execute the client is asked to create, start, stream the logs
\* of, wait on and read the logs of a container in this order and each at most
\* once, and a call that has failed has ended.
C6_NoLocalRetry ==
    /\ IsPrefix(SelectSeq(cliCalls, IsContainerCall), ClientProtocol)
    /\ outcome.kind = "raise" => pc \in {"idle", "init_failed"}

C6_Witness ==
    /\ Finished
    /\ RaisedAirflow
    /\ parsed.done
    /\ SelectSeq(cliCalls, IsContainerCall) = ClientProtocol

\* C7: parse_raw_res returns the final line of the output as last_line, and as
\* res the decoded value of the last line that is well-formed JSON, or None when
\* no line is.
C7_LastJsonLineWins ==
    parsed.done
    => /\ parsed.last_line = containerLog[Len(containerLog)]
       /\ \/ \E i \in 1..Len(containerLog) :
                /\ IsJson(containerLog[i])
                /\ \A j \in (i + 1)..Len(containerLog) : ~IsJson(containerLog[j])
                /\ parsed.res = JsonLoads(containerLog[i]).value
          \/ /\ \A i \in 1..Len(containerLog) : ~IsJson(containerLog[i])
             /\ parsed.res = PyNone

C7_Witness ==
    /\ parsed.done
    /\ containerLog = <<ObjectLine(ErrResponse), ObjectLine(OkResponse),
                        TextLine("INFO plan started")>>
    /\ parsed.res = OkResponse
    /\ parsed.last_line = TextLine("INFO plan started")

\* C8: with string config and pipeline_name, construction fails with an assertion
\* error when step_keys is a list holding an element that is not a string, whatever
\* step is, and passes when step_keys is None (stored as the empty list) or a list
\* of strings.
C8_StepKeysValidated ==
    (pc \in {"idle", "init_failed"} /\ IsString(ctor.config) /\ IsString(ctor.pipeline_name)
        /\ ctor.step_keys.type \in {"NoneType", "list"})
    => LET keys == ctor.step_keys.items
           allStrings == \A i \in 1..Len(keys) : IsString(keys[i])
       IN  /\ ~allStrings => outcome.kind = "raise" /\ outcome.exc = "AssertionError"
           /\ allStrings => /\ outcome.kind = "return"
                            /\ step_keys = [type |-> "list", items |-> keys]

OwnRunId(p, c) ==
    IF p.has_run_id THEN p.run_id
    ELSE IF c.has_dag_run /\ c.dag_run # None THEN c.dag_run
    ELSE None

\* C9: inside execute the run id is the one of params, else the one of the dag
\* run, else none, and the query sees exactly that; between calls _run_id is None
\* and the run_id property is the empty string.
C9_RunIdLifetime ==
    /\ pc = "idle" => _run_id = None /\ run_id(_run_id) = ""
    /\ pc \notin {"idle", "new", "init_failed"}
          => /\ _run_id = OwnRunId(params, context)
             /\ queryRunId = run_id(OwnRunId(params, context))

C9_Witness ==
    /\ pc = "tmpdir"
    /\ nCalls = 2
    /\ outcome = NoOutcome
    /\ lastRunId = "manual_run"
    /\ OwnRunId(params, context) = None
    /\ queryRunId = ""

\* C10: every execute that enters the temporary-directory block appends one bind
\* host_tmp_dir:tmp_dir to volumes and sets AIRFLOW_TMP_DIR; nothing removes a
\* bind, so after n such calls volumes is its initial entries plus n binds, all of
\* them handed to create_container.
C10_BindsAccumulate ==
    /\ Len(volumes) = Len(InitVolumes) + reached
    /\ SubSeq(volumes, 1, Len(InitVolumes)) = InitVolumes
    /\ \A i \in (Len(InitVolumes) + 1)..Len(volumes) :
          volumes[i] = Bind(HostTmpDir, DOCKER_TEMPDIR)
    /\ reached > 0 => /\ "AIRFLOW_TMP_DIR" \in DOMAIN environment
                      /\ environment["AIRFLOW_TMP_DIR"] = DOCKER_TEMPDIR
                      /\ createdBinds = volumes

C10_Witness ==
    /\ Finished
    /\ reached = 2
    /\ Len(createdBinds) = Len(InitVolumes) + 2
    /\ outcome.kind = "raise"

====
